---- MODULE Spec2Model ----
(***************************************************************************)
(* Toolpath reconstruction of 3DErrorDetection: the G-code parser of       *)
(* utils.parse_gcode_file and the ribbon mesh construction of              *)
(* utils.get_corner_normals, utils.build_mesh_from_points and              *)
(* WatchDog.build_object_mesh.                                             *)
(*                                                                         *)
(* Numbers.  Coordinates are integers in units of 1/25 mm, so that 0.2 mm  *)
(* is 5 and 10 mm is 250; an offset of length 0.2 mm along a direction     *)
(* (3,4) or (4,3) is then integral as well.  E operands are integers in    *)
(* whole millimetres of filament.  float() of an operand is its value.     *)
(***************************************************************************)
EXTENDS Integers, Sequences, FiniteSets, TLC

VARIABLES
    \* ---- parse_gcode_file: locals of the function ----
    one_layers, two_layers,       \* the two tracks
    one_lines, two_lines,         \* layer accumulators
    one_new_line, two_new_line,   \* open polylines
    current_x, current_y, current_z,
    last_extruded_z, last_e, e_change,
    core_switch_save,             \* registers of the inactive hotend
    printing, printcore,
    hotend_distance,              \* the function's parameter
    pc,                           \* "reading" inside the for loop, "done" after return
    \* ---- history of the run (not program state) ----
    menu,                         \* the family of files the stream is drawn from
    stream,                       \* the lines read so far
    trace,                        \* per line read: what the loop body computed
    paused,                       \* per hotend: its registers when it was last paused
    discarded,                    \* the layers dropped from each track at end of stream
    \* ---- WatchDog.build_object_mesh: arguments and locals ----
    main_layers, secondary_layers, height,
    vertices, indices,
    main_object_vertices,
    colors,                       \* <<>> until the function returns
    mesh_pc,                      \* "idle", "main" loop, "secondary" loop, "done"
    layer_i, line_i,              \* position of the two nested for loops
    \* ---- history of the run (not program state) ----
    fragments                     \* per polyline that contributed: what it added

parser_vars == <<one_layers, two_layers, one_lines, two_lines, one_new_line,
                 two_new_line, current_x, current_y, current_z, last_extruded_z,
                 last_e, e_change, core_switch_save, printing, printcore,
                 hotend_distance, pc, menu, stream, trace, paused, discarded>>

mesh_vars == <<main_layers, secondary_layers, height, vertices, indices,
               main_object_vertices, colors, mesh_pc, layer_i, line_i, fragments>>

vars == <<parser_vars, mesh_vars>>

(***************************************************************************)
(* Bounds                                                                  *)
(***************************************************************************)
MaxLines == 6        \* lines of the instruction stream
MaxLayers == 2       \* layers of the primary track given to build_object_mesh
MaxPoints == 4       \* points of a straight polyline given to build_object_mesh

(***************************************************************************)
(* Program constants                                                       *)
(***************************************************************************)
\* watchdog.py:35  utils.parse_gcode_file(filename, 18): 18 mm = 450 units
UltimakerHotendDistance == 450
\* watchdog.py:66  utils.get_corner_normals(line, 0.2): 0.2 mm = 5 units
LineWidth == 5
\* watchdog.py:67  utils.build_mesh_from_points(normal_points, 0.2)
LineHeight == 5

(***************************************************************************)
(* Lines of the instruction stream.  A line, after the comment is cut off, *)
(* is its first word as a sequence of characters and the operands that     *)
(* follow it, each a letter and a number.  An empty word is a line that    *)
(* held only a comment.                                                    *)
(***************************************************************************)
Line(word, operands) == [cmd |-> word, params |-> operands]

\* line[:n] == target, for a target without blanks
HasPrefix(line, target) ==
    /\ Len(line.cmd) >= Len(target)
    /\ SubSeq(line.cmd, 1, Len(target)) = target

\* ch in line
HasChar(line, ch) ==
    \/ \E i \in 1..Len(line.cmd) : line.cmd[i] = ch
    \/ \E i \in 1..Len(line.params) : line.params[i][1] = ch

\* line == "" after line.split(";")[0]
IsEmptyLine(line) == line.cmd = <<>> /\ line.params = <<>>

\* line[:2] == "T0" or line[:2] == "T1"
IsToolChangeLine(line) == HasPrefix(line, <<"T", "0">>) \/ HasPrefix(line, <<"T", "1">>)

\* int(line[1]) on a tool change line
NewCore(line) == IF line.cmd[2] = "0" THEN 0 ELSE 1

\* line[:4] == "M205"
IsMarkerLine(line) == HasPrefix(line, <<"M", "2", "0", "5">>)

\* line[:2] == "G0" or line[:2] == "G1"
IsMotionLine(line) == HasPrefix(line, <<"G", "0">>) \/ HasPrefix(line, <<"G", "1">>)

(***************************************************************************)
(* The operand loop of a motion command: the proposed position and E.      *)
(***************************************************************************)
RECURSIVE ParseOperands(_, _, _, _)
ParseOperands(params, i, acc, core_offset) ==
    IF i > Len(params) THEN acc
    ELSE LET p == params[i]
             nxt == IF p[1] = "X" THEN [acc EXCEPT !.x = p[2] + core_offset]
                    ELSE IF p[1] = "Y" THEN [acc EXCEPT !.y = p[2]]
                    ELSE IF p[1] = "Z" THEN [acc EXCEPT !.z = p[2]]
                    ELSE IF p[1] = "E" THEN [acc EXCEPT !.e = p[2]]
                    ELSE acc
         IN  ParseOperands(params, i + 1, nxt, core_offset)

\* "E" in line and ("X" in line or "Y" in line or "Z" in line)
CarriesExtrusion(line) ==
    HasChar(line, "E") /\ (HasChar(line, "X") \/ HasChar(line, "Y") \/ HasChar(line, "Z"))

\* the retraction rule, with the balance forgotten on every move
NewBalanceAlwaysReset(balance, extrusion_dif) == extrusion_dif

\* if e_change <= 0: e_change = e_change + extrusion_dif  else: e_change = extrusion_dif
NewBalance(balance, extrusion_dif) ==
    IF balance <= 0 THEN balance + extrusion_dif ELSE extrusion_dif

\* the commit of an open polyline that also keeps single points
CommitLineKeepsPoints(lines, new_line) ==
    IF Len(new_line) > 0 THEN Append(lines, new_line) ELSE lines

\* if len(new_line) > 1: lines.append(new_line)
CommitLine(lines, new_line) ==
    IF Len(new_line) > 1 THEN Append(lines, new_line) ELSE lines

\* layers[:1], the part that layers[1:] leaves out
FirstLayer(layers) == IF layers = <<>> THEN <<>> ELSE <<Head(layers)>>

\* layers[1:]
DropFirst(layers) == IF layers = <<>> THEN <<>> ELSE Tail(layers)

\* the tool change with the extrusion balance left out of the exchange
SwitchedRegsPartial(regs, save) ==
    <<save[1], save[2], save[3], save[4], save[5], regs[6]>>

\* current_x = core_switch_save[0] ... e_change = core_switch_save[5]
SwitchedRegs(regs, save) == save

\* current_values = [current_x, ...] ... core_switch_save = current_values
SwitchedSave(regs, save) == regs

\* [current_x, current_y, current_z, last_extruded_z, last_e, e_change]
Regs == <<current_x, current_y, current_z, last_extruded_z, last_e, e_change>>

ZeroRegs == <<0, 0, 0, 0, 0, 0>>

(***************************************************************************)
(* Input files.  A stream is drawn line by line from one of a few small    *)
(* families of lines.                                                      *)
(***************************************************************************)
M205 == Line(<<"M", "2", "0", "5">>, <<>>)
T0 == Line(<<"T", "0">>, <<>>)
T1 == Line(<<"T", "1">>, <<>>)
\* G1 X10 Y0 Z0.2 E1
G1_X10_Y0_Z02_E1 ==
    Line(<<"G", "1">>, << <<"X", 250>>, <<"Y", 0>>, <<"Z", 5>>, <<"E", 1>> >>)
\* G1 X10 Y10 Z0.2 E2
G1_X10_Y10_Z02_E2 ==
    Line(<<"G", "1">>, << <<"X", 250>>, <<"Y", 250>>, <<"Z", 5>>, <<"E", 2>> >>)
\* G0 X0 Y0 Z0.2
G0_X0_Y0_Z02 == Line(<<"G", "0">>, << <<"X", 0>>, <<"Y", 0>>, <<"Z", 5>> >>)
\* G1 X10 E1
G1_X10_E1 == Line(<<"G", "1">>, << <<"X", 250>>, <<"E", 1>> >>)
\* G1 X0 Y10 Z0.4 E3
G1_X0_Y10_Z04_E3 ==
    Line(<<"G", "1">>, << <<"X", 0>>, <<"Y", 250>>, <<"Z", 10>>, <<"E", 3>> >>)
\* G1 X10 E-3
G1_X10_Em3 == Line(<<"G", "1">>, << <<"X", 250>>, <<"E", -3>> >>)
\* G1 X10 E2
G1_X10_E2 == Line(<<"G", "1">>, << <<"X", 250>>, <<"E", 2>> >>)
\* G1 E1   (an E operand and no axis)
G1_E1 == Line(<<"G", "1">>, << <<"E", 1>> >>)
\* G10   (firmware retract)
G10 == Line(<<"G", "1", "0">>, <<>>)
\* G04 P100   (dwell)
G04_P100 == Line(<<"G", "0", "4">>, << <<"P", 100>> >>)
\* T10
T10 == Line(<<"T", "1", "0">>, <<>>)
\* M2050
M2050 == Line(<<"M", "2", "0", "5", "0">>, <<>>)
\* G28 X0   (home)
G28_X0 == Line(<<"G", "2", "8">>, << <<"X", 0>> >>)
\* ;comment
CommentLine == Line(<<>>, <<>>)

MenuLines(m) ==
    CASE m = "path" ->
           {M205, G1_X10_Y0_Z02_E1, G1_X10_Y10_Z02_E2, G0_X0_Y0_Z02, G1_X10_E1,
            G1_X0_Y10_Z04_E3}
      [] m = "retract" ->
           {M205, G1_X10_E1, G1_X10_Em3, G1_X10_E2, G1_E1, CommentLine}
      [] m = "dual" ->
           {M205, T0, T1, G1_X10_Y0_Z02_E1, G1_X10_Y10_Z02_E2, G0_X0_Y0_Z02}
      [] m = "dialect" ->
           {M205, G10, G04_P100, T10, M2050, G28_X0}

Menus == {"path", "retract", "dual", "dialect"}

\* the hotend distances a stream of a family is parsed with
MenuDistances(m) == IF m = "dual" THEN {UltimakerHotendDistance} ELSE {0}

(***************************************************************************)
(* State after the assignments that precede the for loop.                  *)
(***************************************************************************)
ParserInit ==
    /\ one_layers = <<>> /\ two_layers = <<>>
    /\ one_lines = <<>> /\ two_lines = <<>>
    /\ one_new_line = <<>> /\ two_new_line = <<>>
    /\ current_x = 0 /\ current_y = 0 /\ current_z = 0
    /\ last_extruded_z = 0 /\ last_e = 0 /\ e_change = 0
    /\ core_switch_save = ZeroRegs
    /\ printing = FALSE
    /\ printcore = 0
    /\ pc = "reading"
    /\ menu \in Menus
    /\ hotend_distance \in MenuDistances(menu)
    /\ stream = <<>>
    /\ trace = <<>>
    /\ paused = [c \in {0, 1} |-> ZeroRegs]
    /\ discarded = <<>>

\* build_object_mesh has not been called
MeshIdle ==
    /\ main_layers = <<>> /\ secondary_layers = <<>> /\ height = 0
    /\ vertices = <<>> /\ indices = <<>>
    /\ main_object_vertices = 0
    /\ colors = <<>>
    /\ mesh_pc = "idle"
    /\ layer_i = 1 /\ line_i = 1
    /\ fragments = <<>>

Init == ParserInit /\ MeshIdle

\* what the loop body computed for a line that is no motion command
NoMotion(kind) ==
    [kind |-> kind, core |-> printcore, carries |-> FALSE, e |-> 0, last_e |-> 0,
     extrusion_dif |-> 0, balance |-> 0, did_extrude |-> FALSE]

CanRead(line) ==
    /\ pc = "reading"
    /\ Len(stream) < MaxLines
    /\ line \in MenuLines(menu)

\* if line == "": continue
ReadEmptyLine ==
    \E line \in MenuLines(menu) :
        /\ CanRead(line)
        /\ UNCHANGED mesh_vars
        /\ IsEmptyLine(line)
        /\ stream' = Append(stream, line)
        /\ trace' = Append(trace, NoMotion("empty"))
        /\ UNCHANGED <<one_layers, two_layers, one_lines, two_lines, one_new_line,
                       two_new_line, current_x, current_y, current_z, last_extruded_z,
                       last_e, e_change, core_switch_save, printing, printcore,
                       hotend_distance, pc, menu, paused, discarded>>

\* the tool change block; such a line is neither the marker nor a motion command
ReadToolChangeLine ==
    \E line \in MenuLines(menu) :
        /\ CanRead(line)
        /\ UNCHANGED mesh_vars
        /\ IsToolChangeLine(line)
        /\ IF NewCore(line) # printcore
           THEN /\ printcore' = NewCore(line)
                /\ current_x' = SwitchedRegs(Regs, core_switch_save)[1]
                /\ current_y' = SwitchedRegs(Regs, core_switch_save)[2]
                /\ current_z' = SwitchedRegs(Regs, core_switch_save)[3]
                /\ last_extruded_z' = SwitchedRegs(Regs, core_switch_save)[4]
                /\ last_e' = SwitchedRegs(Regs, core_switch_save)[5]
                /\ e_change' = SwitchedRegs(Regs, core_switch_save)[6]
                /\ core_switch_save' = SwitchedSave(Regs, core_switch_save)
                /\ paused' = [paused EXCEPT ![printcore] = Regs]
           ELSE UNCHANGED <<printcore, current_x, current_y, current_z, last_extruded_z,
                            last_e, e_change, core_switch_save, paused>>
        /\ stream' = Append(stream, line)
        /\ trace' = Append(trace, NoMotion("tool"))
        /\ UNCHANGED <<one_layers, two_layers, one_lines, two_lines, one_new_line,
                       two_new_line, printing, hotend_distance, pc, menu, discarded>>

\* if line[:4] == "M205": printing = True
ReadMarkerLine ==
    \E line \in MenuLines(menu) :
        /\ CanRead(line)
        /\ UNCHANGED mesh_vars
        /\ IsMarkerLine(line)
        /\ printing' = TRUE
        /\ stream' = Append(stream, line)
        /\ trace' = Append(trace, NoMotion("marker"))
        /\ UNCHANGED <<one_layers, two_layers, one_lines, two_lines, one_new_line,
                       two_new_line, current_x, current_y, current_z, last_extruded_z,
                       last_e, e_change, core_switch_save, printcore,
                       hotend_distance, pc, menu, paused, discarded>>

\* a line that matches none of the tests, or a motion command before the marker
ReadIgnoredLine ==
    \E line \in MenuLines(menu) :
        /\ CanRead(line)
        /\ UNCHANGED mesh_vars
        /\ ~IsEmptyLine(line)
        /\ ~IsToolChangeLine(line)
        /\ ~IsMarkerLine(line)
        /\ ~(printing /\ IsMotionLine(line))
        /\ stream' = Append(stream, line)
        /\ trace' = Append(trace, NoMotion("ignored"))
        /\ UNCHANGED <<one_layers, two_layers, one_lines, two_lines, one_new_line,
                       two_new_line, current_x, current_y, current_z, last_extruded_z,
                       last_e, e_change, core_switch_save, printing, printcore,
                       hotend_distance, pc, menu, paused, discarded>>

\* if printing: if line[:2] == "G0" or line[:2] == "G1": ...
ReadMotionLine ==
    \E line \in MenuLines(menu) :
        /\ CanRead(line)
        /\ UNCHANGED mesh_vars
        /\ printing
        /\ IsMotionLine(line)
        /\ LET new == ParseOperands(line.params, 1,
                          [x |-> current_x, y |-> current_y, z |-> current_z, e |-> last_e],
                          IF printcore = 1 THEN hotend_distance ELSE 0)
               carries == CarriesExtrusion(line)
               extrusion_dif == new.e - last_e
               balance == IF carries THEN NewBalance(e_change, extrusion_dif) ELSE e_change
               did_extrude == carries /\ balance > 0
               new_layer == did_extrude /\ new.z # last_extruded_z
               point == <<new.x, new.y, new.z>>
               layers == IF printcore = 0 THEN one_layers ELSE two_layers
               lines == IF printcore = 0 THEN one_lines ELSE two_lines
               new_line == IF printcore = 0 THEN one_new_line ELSE two_new_line
               layers2 == IF new_layer THEN Append(layers, lines) ELSE layers
               lines2 == IF new_layer THEN <<>>
                         ELSE IF did_extrude THEN lines
                         ELSE CommitLine(lines, new_line)
               new_line2 == IF new_layer THEN <<point>>
                            ELSE IF did_extrude THEN Append(new_line, point)
                            ELSE <<point>>
           IN  /\ e_change' = balance
               /\ last_extruded_z' = IF did_extrude THEN new.z ELSE last_extruded_z
               /\ IF printcore = 0
                  THEN /\ one_layers' = layers2
                       /\ one_lines' = lines2
                       /\ one_new_line' = new_line2
                       /\ UNCHANGED <<two_layers, two_lines, two_new_line>>
                  ELSE /\ two_layers' = layers2
                       /\ two_lines' = lines2
                       /\ two_new_line' = new_line2
                       /\ UNCHANGED <<one_layers, one_lines, one_new_line>>
               /\ current_x' = new.x
               /\ current_y' = new.y
               /\ current_z' = new.z
               /\ trace' = Append(trace,
                      [kind |-> "motion", core |-> printcore, carries |-> carries,
                       e |-> new.e, last_e |-> last_e, extrusion_dif |-> extrusion_dif,
                       balance |-> e_change, did_extrude |-> did_extrude])
        /\ stream' = Append(stream, line)
        /\ UNCHANGED <<last_e, core_switch_save, printing, printcore, hotend_distance,
                       pc, menu, paused, discarded>>

\* the end of the for loop: drop the first layer of each track and return
EndOfStream ==
    /\ pc = "reading"
    /\ UNCHANGED mesh_vars
    /\ one_layers' = DropFirst(one_layers)
    /\ two_layers' = DropFirst(two_layers)
    /\ discarded' = <<FirstLayer(one_layers), FirstLayer(two_layers)>>
    /\ pc' = "done"
    /\ UNCHANGED <<one_lines, two_lines, one_new_line, two_new_line, current_x,
                   current_y, current_z, last_extruded_z, last_e, e_change,
                   core_switch_save, printing, printcore, hotend_distance, menu,
                   stream, trace, paused>>

Next ==
    \/ ReadEmptyLine
    \/ ReadToolChangeLine
    \/ ReadMarkerLine
    \/ ReadIgnoredLine
    \/ ReadMotionLine
    \/ EndOfStream

Spec == Init /\ [][Next]_vars

(***************************************************************************)
(* Vector utilities.  np.sin(np.pi/2) is 1 and np.sin(-np.pi/2) is -1, but *)
(* np.cos of both is the float 6.123233995736766e-17, not 0.  A component  *)
(* that went through rotate_vector is therefore a pair <<main, residue>>   *)
(* standing for main + residue * 6.1e-17 (in units of 1/25 mm); a residue  *)
(* that the float addition rounds away is 0.  A residue decides a          *)
(* comparison and a direction only where the mains cancel; next to a main  *)
(* that is not 0 it is below 1e-15 mm and is left out of the offsets.  A   *)
(* square root is exact on the inputs used here: the directions of the     *)
(* polylines are multiples of (1,0), (0,1), (3,4) and (4,3), and of two    *)
(* residues at most one is not 0.  NaN is the result of 0/0.               *)
(***************************************************************************)
NaN == -1000000

QuarterTurn == "pi/2"
MinusQuarterTurn == "-pi/2"

\* np.cos(angle) * 2^53, in ten-thousandths: 6.123233995736766e-17 * 2^53 = 0.55153...
Cos(angle) == 5515
Sin(angle) == IF angle = QuarterTurn THEN 1 ELSE -1

Abs(n) == IF n < 0 THEN -n ELSE n

RECURSIVE BinadeFrom(_, _)
\* the largest p * 2^j that is not above n
BinadeFrom(n, p) == IF 2 * p > n THEN p ELSE BinadeFrom(n, 2 * p)

\* 64 * 25 * 2^e, where the float main / 25 (in mm) lies in [2^e, 2^(e+1))
Binade(main) == BinadeFrom(64 * Abs(main), 50)

\* half the distance from the float main / 25 to the next float on the side
\* of the residue, times 64 * 25 * 2^53: the floats below a power of two lie
\* twice as close as those above it
HalfGap(main, residue) ==
    IF 64 * Abs(main) = Binade(main) /\ main * residue < 0
    THEN Binade(main) \div 2
    ELSE Binade(main)

\* the float sum main + residue * np.cos(angle): round to nearest
Float(main, residue, angle) ==
    IF main # 0 /\ 64 * Abs(residue) * Cos(angle) < HalfGap(main, residue) * 10000
    THEN <<main, 0>>
    ELSE <<main, residue>>

\* [vector[0]*cos(angle) - vector[1]*sin(angle), vector[0]*sin(angle) + vector[1]*cos(angle)]
rotate_vector(vector, angle) ==
    <<Float(0 - vector[2] * Sin(angle), vector[1], angle),
      Float(vector[1] * Sin(angle), vector[2], angle)>>

RECURSIVE SqrtFrom(_, _)
\* the integer square root of n, from the estimate x >= sqrt(n) down
SqrtFrom(n, x) ==
    LET y == (x + n \div x) \div 2
    IN  IF y >= x THEN x ELSE SqrtFrom(n, y)

\* np.sqrt(vector[0]**2 + vector[1]**2): of the mains, or of the residues
\* where both mains are 0
Magnitude(vector) ==
    LET n == vector[1][1] * vector[1][1] + vector[2][1] * vector[2][1]
        r == vector[1][2] * vector[1][2] + vector[2][2] * vector[2][2]
    IN  IF n # 0 THEN <<SqrtFrom(n, n), 0>>
        ELSE IF r # 0 THEN <<0, SqrtFrom(r, r)>>
        ELSE <<0, 0>>

\* (component / mag) * length
Scaled(component, mag, length) ==
    IF mag = <<0, 0>> THEN NaN
    ELSE IF mag[1] # 0 THEN (component[1] * length) \div mag[1]
    ELSE (component[2] * length) \div mag[2]

\* length*(np.array(vector)/mag)
scale_vector(vector, length) ==
    <<Scaled(vector[1], Magnitude(vector), length),
      Scaled(vector[2], Magnitude(vector), length)>>

Plus(a, b) == IF a = NaN \/ b = NaN THEN NaN ELSE a + b
Minus(a, b) == IF a = NaN \/ b = NaN THEN NaN ELSE a - b

\* (point + vector, point - vector), z carried through
add_vector_bi(vector, point) ==
    << <<Plus(point[1], vector[1]), Plus(point[2], vector[2]), point[3]>>,
       <<Minus(point[1], vector[1]), Minus(point[2], vector[2]), point[3]>> >>

\* the rotated first segment, which scale_vector normalises
first_rotated(line) ==
    rotate_vector(<<line[2][1] - line[1][1], line[2][2] - line[1][2]>>, QuarterTurn)

\* the normal at the first point
first_normal(line, width) == scale_vector(first_rotated(line), width)

\* the rotated last segment, which scale_vector normalises
end_rotated(line) ==
    LET n == Len(line)
    IN  rotate_vector(<<line[n][1] - line[n - 1][1], line[n][2] - line[n - 1][2]>>,
                      QuarterTurn)

\* the normal at the last point
end_normal(line, width) == scale_vector(end_rotated(line), width)

\* rotate_vector(last_dif, np.pi/2) at the interior point i (1-based)
last_normal(line, i) ==
    rotate_vector(<<line[i][1] - line[i - 1][1], line[i][2] - line[i - 1][2]>>,
                  QuarterTurn)

\* rotate_vector(next_dif, -np.pi/2) at the interior point i (1-based)
next_normal(line, i) ==
    rotate_vector(<<line[i][1] - line[i + 1][1], line[i][2] - line[i + 1][2]>>,
                  MinusQuarterTurn)

\* last_normal[0] == next_normal[0]*-1 and last_normal[1] == next_normal[1]*-1
exact_negatives(last, next) ==
    /\ last[1] = <<next[1][1] * (-1), next[1][2] * (-1)>>
    /\ last[2] = <<next[2][1] * (-1), next[2][2] * (-1)>>

\* the loop body for the interior point i (1-based), before scaling
corner_normal(line, i) ==
    LET last == last_normal(line, i)
        next == next_normal(line, i)
    IN  IF exact_negatives(last, next)
        THEN last
        ELSE << <<last[1][1] + next[1][1], last[1][2] + next[1][2]>>,
                <<last[2][1] + next[2][1], last[2][2] + next[2][2]>> >>

\* the pair of corner points of point i (1-based) of the line
corner_points(line, i, width) ==
    IF i = 1 THEN add_vector_bi(first_normal(line, width), line[1])
    ELSE IF i = Len(line) THEN add_vector_bi(end_normal(line, width), line[i])
    ELSE LET normal == corner_normal(line, i)
             magnitude == Magnitude(normal)
         IN  add_vector_bi(<<Scaled(normal[1], magnitude, width),
                             Scaled(normal[2], magnitude, width)>>, line[i])

\* result[2i] = point i + normal, result[2i+1] = point i - normal (0-based)
get_corner_normals(line, line_width) ==
    IF Len(line) > 1
    THEN [k \in 1..(2 * Len(line)) |->
             corner_points(line, (k + 1) \div 2, line_width)[IF k % 2 = 1 THEN 1 ELSE 2]]
    ELSE <<>>

(***************************************************************************)
(* build_mesh_from_points.  Indices are 0-based as in the source: index k  *)
(* names the vertex at position k + 1 of the vertex sequence.              *)
(***************************************************************************)
\* Front Face
FrontFace(point_count) ==
    << <<0, point_count + 1, 1>>, <<0, point_count, point_count + 1>> >>

\* Back Face
BackFace(point_count) ==
    << <<point_count - 2, point_count - 1, (point_count * 2) - 1>>,
       <<point_count - 2, (point_count * 2) - 1, (point_count * 2) - 2>> >>

\* the loop body with the top layer wound like the bottom layer
StripTopLikeBottom(i, point_count) ==
    << <<i, i + 1, i + 3>>, <<i, i + 3, i + 2>>,
       <<point_count + i, point_count + i + 1, point_count + i + 3>>,
       <<point_count + i, point_count + i + 3, point_count + i + 2>>,
       <<i, i + 2, i + point_count>>, <<i + 2, i + 2 + point_count, i + point_count>>,
       <<i + 1, i + 1 + point_count, i + 3>>,
       <<i + 3, i + 1 + point_count, i + 3 + point_count>> >>

\* the body of the while loop: bottom, top, right and left layer
Strip(i, point_count) ==
    << <<i, i + 1, i + 3>>, <<i, i + 3, i + 2>>,
       <<point_count + i, point_count + i + 3, point_count + i + 1>>,
       <<point_count + i, point_count + i + 2, point_count + i + 3>>,
       <<i, i + 2, i + point_count>>, <<i + 2, i + 2 + point_count, i + point_count>>,
       <<i + 1, i + 1 + point_count, i + 3>>,
       <<i + 3, i + 1 + point_count, i + 3 + point_count>> >>

\* i = 0; while i < point_count-2: ... i += 2
RECURSIVE Strips(_, _)
Strips(i, point_count) ==
    IF i < point_count - 2
    THEN Strip(i, point_count) \o Strips(i + 2, point_count)
    ELSE <<>>

\* np.array(points) + np.array([0,0,line_height])
second_layer(points, line_height) ==
    [k \in 1..Len(points) |-> <<points[k][1], points[k][2], points[k][3] + line_height>>]

\* returns points, indices
build_mesh_from_points(points, line_height) ==
    [points |-> points \o second_layer(points, line_height),
     indices |-> FrontFace(Len(points)) \o BackFace(Len(points)) \o Strips(0, Len(points))]

(***************************************************************************)
(* WatchDog.build_object_mesh                                              *)
(***************************************************************************)
\* the indices of a fragment left as build_mesh_from_points returned them
RebasedNot(new_indices, offset) == new_indices

\* list(np.array(new_indices) + len(vertices))
Rebased(new_indices, offset) ==
    [j \in 1..Len(new_indices) |->
        <<new_indices[j][1] + offset, new_indices[j][2] + offset,
          new_indices[j][3] + offset>>]

\* layers[:height]: a negative height counts from the end of the list
FirstLayers(layers, k) ==
    LET stop == IF k < 0 THEN Len(layers) + k ELSE k
    IN  SubSeq(layers, 1, IF stop < 0 THEN 0
                          ELSE IF stop < Len(layers) THEN stop ELSE Len(layers))

\* the body of the inner for loop, for the polyline `line` of track `track`
AddLine(track, line) ==
    IF Len(line) > 1
    THEN LET normal_points == get_corner_normals(line, LineWidth)
             built == build_mesh_from_points(normal_points, LineHeight)
             new_indices == Rebased(built.indices, Len(vertices))
         IN  /\ vertices' = vertices \o built.points
             /\ indices' = indices \o new_indices
             /\ fragments' = Append(fragments,
                    [track |-> track, line |-> line,
                     first_vertex |-> Len(vertices), vertex_count |-> Len(built.points),
                     first_index |-> Len(indices), index_count |-> Len(new_indices),
                     local_indices |-> built.indices, points |-> built.points])
    ELSE UNCHANGED <<vertices, indices, fragments>>

\* for line in layer: ... (primary track)
BuildMainLine ==
    /\ mesh_pc = "main"
    /\ layer_i <= Len(FirstLayers(main_layers, height))
    /\ line_i <= Len(main_layers[layer_i])
    /\ AddLine("main", main_layers[layer_i][line_i])
    /\ line_i' = line_i + 1
    /\ UNCHANGED <<main_layers, secondary_layers, height, main_object_vertices,
                   colors, mesh_pc, layer_i>>
    /\ UNCHANGED parser_vars

\* for layer in main_layers[:height]: the next layer
NextMainLayer ==
    /\ mesh_pc = "main"
    /\ layer_i <= Len(FirstLayers(main_layers, height))
    /\ line_i > Len(main_layers[layer_i])
    /\ layer_i' = layer_i + 1
    /\ line_i' = 1
    /\ UNCHANGED <<main_layers, secondary_layers, height, vertices, indices,
                   main_object_vertices, colors, mesh_pc, fragments>>
    /\ UNCHANGED parser_vars

\* main_object_vertices = len(vertices)
EndMainTrack ==
    /\ mesh_pc = "main"
    /\ layer_i > Len(FirstLayers(main_layers, height))
    /\ main_object_vertices' = Len(vertices)
    /\ mesh_pc' = "secondary"
    /\ layer_i' = 1
    /\ line_i' = 1
    /\ UNCHANGED <<main_layers, secondary_layers, height, vertices, indices,
                   colors, fragments>>
    /\ UNCHANGED parser_vars

\* for line in layer: ... (secondary track)
BuildSecondaryLine ==
    /\ mesh_pc = "secondary"
    /\ layer_i <= Len(FirstLayers(secondary_layers, height))
    /\ line_i <= Len(secondary_layers[layer_i])
    /\ AddLine("secondary", secondary_layers[layer_i][line_i])
    /\ line_i' = line_i + 1
    /\ UNCHANGED <<main_layers, secondary_layers, height, main_object_vertices,
                   colors, mesh_pc, layer_i>>
    /\ UNCHANGED parser_vars

\* for layer in secondary_layers[:height]: the next layer
NextSecondaryLayer ==
    /\ mesh_pc = "secondary"
    /\ layer_i <= Len(FirstLayers(secondary_layers, height))
    /\ line_i > Len(secondary_layers[layer_i])
    /\ layer_i' = layer_i + 1
    /\ line_i' = 1
    /\ UNCHANGED <<main_layers, secondary_layers, height, vertices, indices,
                   main_object_vertices, colors, mesh_pc, fragments>>
    /\ UNCHANGED parser_vars

\* secondary_vertices, colors and the returned mesh
EndSecondaryTrack ==
    /\ mesh_pc = "secondary"
    /\ layer_i > Len(FirstLayers(secondary_layers, height))
    /\ colors' = [k \in 1..Len(vertices) |->
                     IF k <= main_object_vertices THEN "main_color" ELSE "secondary_color"]
    /\ mesh_pc' = "done"
    /\ UNCHANGED <<main_layers, secondary_layers, height, vertices, indices,
                   main_object_vertices, layer_i, line_i, fragments>>
    /\ UNCHANGED parser_vars

MeshNext ==
    \/ BuildMainLine
    \/ NextMainLayer
    \/ EndMainTrack
    \/ BuildSecondaryLine
    \/ NextSecondaryLayer
    \/ EndSecondaryTrack

(***************************************************************************)
(* Arguments of build_object_mesh                                          *)
(***************************************************************************)
\* the directions of the straight polylines
Directions ==
    {<<5, 0>>, <<-5, 0>>, <<0, 5>>, <<0, -5>>,
     <<3, 4>>, <<-3, 4>>, <<3, -4>>, <<-3, -4>>,
     <<4, 3>>, <<-4, 3>>, <<4, -3>>, <<-4, -3>>}

\* n points from (20,20,5) on, d apart
StraightLine(d, n) == [k \in 1..n |-> <<20 + (k - 1) * d[1], 20 + (k - 1) * d[2], 5>>]

StraightLines == {StraightLine(d, n) : d \in Directions, n \in 2..MaxPoints}

\* a single travel point
PointLine == << <<0, 0, 5>> >>
\* a segment along x, as parsed from G1 X10 Y0 Z0.2 / G1 X10 Y10 Z0.2
SegmentLine == << <<250, 0, 5>>, <<250, 250, 5>> >>
\* a zigzag of three segments
ZigzagLine == << <<0, 0, 5>>, <<3, 4, 5>>, <<6, 0, 5>>, <<9, 4, 5>> >>
\* an extruding move to the current x, y, as parsed from G1 X10 E1 twice
DuplicateLine == << <<250, 0, 0>>, <<250, 0, 0>> >>

\* out and back along x, as parsed from G1 X10 E1 / G1 X0 E2
ReversalLine == << <<0, 0, 5>>, <<250, 0, 5>>, <<0, 0, 5>> >>
\* out and back along (3,4), 1 mm each way
DiagonalReversalLine == << <<0, 0, 5>>, <<15, 20, 5>>, <<0, 0, 5>> >>
\* an extruding move to the current x, y in the middle of a polyline
InteriorDuplicateLine == << <<0, 0, 5>>, <<250, 0, 5>>, <<250, 0, 5>>, <<500, 0, 5>> >>

DegenerateLines == {ReversalLine, DiagonalReversalLine, InteriorDuplicateLine}

\* the layers the primary track is made of
MainLayers ==
    {<<>>, <<PointLine>>, <<ZigzagLine>>, <<SegmentLine, ZigzagLine>>,
     <<PointLine, SegmentLine, ZigzagLine>>}

\* up to MaxLayers layers, or one layer with one straight or degenerate polyline
MainTracks ==
    UNION {[1..m -> MainLayers] : m \in 0..MaxLayers}
        \cup {<< <<l>> >> : l \in StraightLines \cup DegenerateLines}

SecondaryTracks == {<<>>, << <<>> >>, << <<SegmentLine>> >>, << <<DuplicateLine>> >>}

\* the parser is not running
ParserIdle ==
    /\ one_layers = <<>> /\ two_layers = <<>>
    /\ one_lines = <<>> /\ two_lines = <<>>
    /\ one_new_line = <<>> /\ two_new_line = <<>>
    /\ current_x = 0 /\ current_y = 0 /\ current_z = 0
    /\ last_extruded_z = 0 /\ last_e = 0 /\ e_change = 0
    /\ core_switch_save = ZeroRegs
    /\ printing = FALSE
    /\ printcore = 0
    /\ pc = "idle"
    /\ menu = "none"
    /\ hotend_distance = 0
    /\ stream = <<>>
    /\ trace = <<>>
    /\ paused = [c \in {0, 1} |-> ZeroRegs]
    /\ discarded = <<>>

\* vertices = [], indices = [] at the start of build_object_mesh
MeshInit ==
    /\ ParserIdle
    /\ main_layers \in MainTracks
    /\ secondary_layers \in SecondaryTracks
    /\ height \in (0 - MaxLayers)..(MaxLayers + 1)
    /\ vertices = <<>> /\ indices = <<>>
    /\ main_object_vertices = 0
    /\ colors = <<>>
    /\ mesh_pc = "main"
    /\ layer_i = 1 /\ line_i = 1
    /\ fragments = <<>>

MeshSpec == MeshInit /\ [][MeshNext]_vars

(***************************************************************************)
(* Properties of parse_gcode_file                                          *)
(***************************************************************************)
LastRead == stream[Len(stream)]
LastTrace == trace[Len(trace)]

\* every polyline of a sequence of layers
AllPolylines(layers) ==
    UNION {{layers[i][j] : j \in 1..Len(layers[i])} : i \in 1..Len(layers)}

LinesOf(lines) == {lines[j] : j \in 1..Len(lines)}

\* M205; G1 X10 Y0 Z0.2 E1; G1 X10 Y10 Z0.2 E2; G0 X0 Y0 Z0.2
EndToEndStream == <<M205, G1_X10_Y0_Z02_E1, G1_X10_Y10_Z02_E2, G0_X0_Y0_Z02>>

\* C1: parsing the end-to-end stream returns a primary track of exactly one
\* layer holding exactly the polyline [[10,0,0.2],[10,10,0.2]] and an empty
\* secondary track; in general the polylines committed to the layer that is
\* open at the end of the stream are part of the returned track.
C1_EndToEndScenario ==
    pc = "done" =>
        /\ stream = EndToEndStream =>
              /\ one_layers = << << << <<250, 0, 5>>, <<250, 250, 5>> >> >> >>
              /\ two_layers = <<>>
        /\ LinesOf(one_lines) \subseteq AllPolylines(one_layers)
        /\ LinesOf(two_lines) \subseteq AllPolylines(two_layers)

\* C2: every polyline stored in a layer accumulator or in a track has at
\* least 2 points.
C2_PolylinesHaveTwoPoints ==
    \A l \in LinesOf(one_lines) \cup LinesOf(two_lines)
             \cup AllPolylines(one_layers) \cup AllPolylines(two_layers) :
        Len(l) >= 2

\* C2 witness: a polyline sits in a closed layer of the primary track, and
\* the last two moves did not extrude, so that a single travel point was
\* dropped instead of committed.
C2_Witness ==
    /\ AllPolylines(one_layers) # {}
    /\ \E i \in 1..(Len(trace) - 1) :
          /\ trace[i].kind = "motion" /\ ~trace[i].did_extrude
          /\ trace[i + 1].kind = "motion" /\ ~trace[i + 1].did_extrude
          /\ trace[i + 1].core = trace[i].core

\* C3: a tool change naming the active tool changes no register; one naming
\* the other tool exchanges all six registers with the saved slot in one
\* step, and the registers it activates are those the tool had when it was
\* paused (or the initial ones if it never ran).
C3_ToolChangeSwapsRegisters ==
    [][(Len(stream') = Len(stream) + 1 /\ IsToolChangeLine(stream'[Len(stream')])) =>
          IF NewCore(stream'[Len(stream')]) = printcore
          THEN /\ Regs' = Regs
               /\ core_switch_save' = core_switch_save
               /\ printcore' = printcore
          ELSE /\ printcore' = NewCore(stream'[Len(stream')])
               /\ Regs' = core_switch_save
               /\ core_switch_save' = Regs
               /\ Regs' = paused[printcore']
      ]_vars

\* C3 witness: the primary hotend has just been resumed by T0 after the
\* secondary one ran; both have moved, and the primary registers are those
\* it was paused with.
C3_Witness ==
    /\ Len(stream) > 0
    /\ LastRead = T0
    /\ printcore = 0
    /\ \E i \in 1..Len(stream) : stream[i] = T1
    /\ Regs = paused[0]
    /\ Regs # ZeroRegs
    /\ core_switch_save # ZeroRegs
    /\ core_switch_save # Regs

RetractionDeltas == <<1, -3, 1, 1, 2>>
RetractionFlags == <<TRUE, FALSE, FALSE, FALSE, TRUE>>

\* five consecutive motion commands from line i on carry an E operand and
\* an axis, start from balance 0 and have the delta_e values +1,-3,+1,+1,+2
RetractionWindow(i) ==
    /\ i + 4 <= Len(trace)
    /\ trace[i].balance = 0
    /\ \A k \in 0..4 :
          /\ trace[i + k].kind = "motion"
          /\ trace[i + k].carries
          /\ trace[i + k].extrusion_dif = RetractionDeltas[k + 1]

\* C4: from balance 0, five consecutive motion commands with an E operand
\* and an axis whose delta_e are +1,-3,+1,+1,+2 are classified as extruding
\* [true,false,false,false,true].
C4_RetractionBalance ==
    \A i \in 1..Len(trace) :
        RetractionWindow(i) =>
            \A k \in 0..4 : trace[i + k].did_extrude = RetractionFlags[k + 1]

\* C4 witness: such a run of five commands has been read.
C4_Witness == \E i \in 1..Len(trace) : RetractionWindow(i)

\* the command codes the parser is specified to recognise
RecognisedCodes ==
    {<<"T", "0">>, <<"T", "1">>, <<"M", "2", "0", "5">>, <<"G", "0">>, <<"G", "1">>}

\* C8: a line whose command code is none of T0, T1, M205, G0, G1 leaves the
\* whole parser state unchanged.
C8_UnrecognisedCodeIgnored ==
    [][(Len(stream') = Len(stream) + 1
          /\ stream'[Len(stream')].cmd \notin RecognisedCodes) =>
          UNCHANGED <<printcore, printing, Regs, core_switch_save, one_new_line,
                      two_new_line, one_lines, two_lines, one_layers, two_layers>>
      ]_vars

\* C9: delta_e is the E operand minus the last-E register, and after a
\* motion command carrying an E operand that register equals the operand.
C9_LastEFollowsOperand ==
    (Len(trace) > 0 /\ LastTrace.kind = "motion" /\ HasChar(LastRead, "E")) =>
        /\ LastTrace.extrusion_dif = LastTrace.e - LastTrace.last_e
        /\ last_e = LastTrace.e

\* C10: the layer discarded from each track at the end of the stream holds
\* no polylines.
C10_DiscardedLayerEmpty ==
    pc = "done" =>
        \A t \in 1..2 : \A i \in 1..Len(discarded[t]) : discarded[t][i] = <<>>

(***************************************************************************)
(* Properties of the mesh construction                                     *)
(***************************************************************************)
RECURSIVE Flatten(_)
\* the polylines of a sequence of layers, in order
Flatten(layers) ==
    IF layers = <<>> THEN <<>> ELSE Head(layers) \o Flatten(Tail(layers))

\* the polylines of length >= 2 of the first k layers of a track
Contributing(track, k) ==
    SelectSeq(Flatten(FirstLayers(track, k)), LAMBDA l : Len(l) >= 2)

LastFragment == fragments[Len(fragments)]

\* C5: every index of the combined index buffer is a position of the
\* combined vertex buffer; the triangles of each fragment are at the end of
\* the buffer when it is added, rebased by the number of vertices before it,
\* and reference only the vertices of that fragment; once the function
\* returns, the fragments are those of the polylines of length >= 2 in the
\* first k layers of the primary and then the secondary track.
C5_CombinedIndexBufferValid ==
    /\ \A j \in 1..Len(indices) : \A c \in 1..3 :
          indices[j][c] >= 0 /\ indices[j][c] < Len(vertices)
    /\ \A f \in 1..Len(fragments) :
          LET frag == fragments[f]
          IN  /\ frag.first_vertex =
                    (IF f = 1 THEN 0
                     ELSE fragments[f - 1].first_vertex + fragments[f - 1].vertex_count)
              /\ frag.first_index =
                    (IF f = 1 THEN 0
                     ELSE fragments[f - 1].first_index + fragments[f - 1].index_count)
              /\ SubSeq(vertices, frag.first_vertex + 1,
                        frag.first_vertex + frag.vertex_count) = frag.points
              /\ \A j \in 1..frag.index_count : \A c \in 1..3 :
                    /\ indices[frag.first_index + j][c] >= frag.first_vertex
                    /\ indices[frag.first_index + j][c] <
                           frag.first_vertex + frag.vertex_count
                    /\ indices[frag.first_index + j][c] =
                           frag.local_indices[j][c] + frag.first_vertex
    /\ mesh_pc = "done" =>
          /\ [f \in 1..Len(fragments) |-> fragments[f].line] =
                Contributing(main_layers, height) \o Contributing(secondary_layers, height)
          /\ Len(fragments) > 0 =>
                /\ LastFragment.first_vertex + LastFragment.vertex_count = Len(vertices)
                /\ LastFragment.first_index + LastFragment.index_count = Len(indices)
          /\ Len(fragments) = 0 => vertices = <<>> /\ indices = <<>>

\* C5 witness: the mesh is returned with two fragments of the primary and
\* one of the secondary track, a single point was skipped and a layer
\* beyond the layer count was left out.
C5_Witness ==
    /\ mesh_pc = "done"
    /\ Len(fragments) >= 3
    /\ fragments[2].track = "main"
    /\ LastFragment.track = "secondary"
    /\ height < Len(main_layers)
    /\ \E i \in 1..height : \E j \in 1..Len(main_layers[i]) : Len(main_layers[i][j]) = 1

\* the directed edges of a triangle list: a -> b, b -> c, c -> a
DirectedEdges(tris) ==
    {<<tris[j][e], tris[j][(e % 3) + 1]>> : j \in 1..Len(tris), e \in 1..3}

\* every edge occurs in exactly two triangles, once in each direction: no
\* directed edge occurs twice, and each has its reverse
Watertight(tris) ==
    /\ Cardinality(DirectedEdges(tris)) = 3 * Len(tris)
    /\ \A uv \in DirectedEdges(tris) :
          /\ uv[1] # uv[2]
          /\ <<uv[2], uv[1]>> \in DirectedEdges(tris)

\* C6: for every even M >= 4 the triangle list of build_mesh_from_points is
\* watertight and consistently wound: every edge occurs in exactly two
\* triangles, once in each direction.
C6_RibbonWatertight ==
    (Len(fragments) > 0
        /\ LastFragment.vertex_count >= 8 /\ LastFragment.vertex_count % 4 = 0) =>
        Watertight(LastFragment.local_indices)

\* C6 witness: a ribbon over M = 8 boundary points (16 vertices, 28
\* triangles) has been built from a polyline that bends.
C6_Witness ==
    /\ Len(fragments) > 0
    /\ LastFragment.line = ZigzagLine
    /\ LastFragment.vertex_count = 16
    /\ Len(LastFragment.local_indices) = 28

\* all points on one line, each step in the same direction
Straight(line) ==
    /\ Len(line) >= 2
    /\ \A i \in 2..Len(line) :
          LET d1 == <<line[2][1] - line[1][1], line[2][2] - line[1][2]>>
              di == <<line[i][1] - line[i - 1][1], line[i][2] - line[i - 1][2]>>
          IN  /\ d1 # <<0, 0>>
              /\ d1[1] * di[2] - d1[2] * di[1] = 0
              /\ d1[1] * di[1] + d1[2] * di[2] > 0
              /\ line[i][3] = line[1][3]

Sub3(a, b) == <<a[1] - b[1], a[2] - b[2], a[3] - b[3]>>
Cross3(a, b) ==
    <<a[2] * b[3] - a[3] * b[2], a[3] * b[1] - a[1] * b[3], a[1] * b[2] - a[2] * b[1]>>
Dot3(a, b) == a[1] * b[1] + a[2] * b[2] + a[3] * b[3]

RECURSIVE Sum3(_)
Sum3(points) ==
    IF points = <<>> THEN <<0, 0, 0>>
    ELSE LET r == Sum3(Tail(points))
         IN  <<Head(points)[1] + r[1], Head(points)[2] + r[2], Head(points)[3] + r[3]>>

\* (b-a) x (c-a) . (centroid of the triangle - centroid of the ribbon),
\* times 3 * the number of vertices
Outwardness(points, tri) ==
    LET a == points[tri[1] + 1]
        b == points[tri[2] + 1]
        c == points[tri[3] + 1]
        n == Cross3(Sub3(b, a), Sub3(c, a))
        s == Sum3(points)
        t == Sum3(<<a, b, c>>)
        m == Len(points)
    IN  Dot3(n, <<m * t[1] - 3 * s[1], m * t[2] - 3 * s[2], m * t[3] - 3 * s[3]>>)

\* C7: for a straight polyline the right-hand-rule normal of every triangle
\* of the ribbon points away from the interior of the ribbon.
C7_StraightRibbonOutward ==
    (Len(fragments) > 0 /\ Straight(LastFragment.line)) =>
        \A j \in 1..Len(LastFragment.local_indices) :
            Outwardness(LastFragment.points, LastFragment.local_indices[j]) > 0

\* what the code does instead: every triangle of a straight ribbon faces
\* the interior
StraightRibbonInward ==
    (Len(fragments) > 0 /\ Straight(LastFragment.line)) =>
        \A j \in 1..Len(LastFragment.local_indices) :
            Outwardness(LastFragment.points, LastFragment.local_indices[j]) < 0


(***************************************************************************)
(* The open polyline across an extruding move.                             *)
(***************************************************************************)
\* one_new_line or two_new_line, by the active print core
OpenPolyline == IF printcore = 0 THEN one_new_line ELSE two_new_line

\* the step reads a motion line that deposits material
ExtrudingMove ==
    /\ Len(trace') = Len(trace) + 1
    /\ LastTrace'.kind = "motion"
    /\ LastTrace'.did_extrude

\* the line read before this step was a motion line that deposited nothing
AfterTravel ==
    /\ Len(trace) > 0
    /\ LastTrace.kind = "motion"
    /\ ~LastTrace.did_extrude

\* C11: every extruding move appends its point to the open polyline as it
\* stood before the move (one more point, the earlier points kept), also when
\* the move is at a new z and closes the current layer; an extruding move
\* that directly follows a non-extruding move leaves an open polyline of at
\* least 2 points whose first point is the travel point of that move.
C11_ExtrudingMoveAppends ==
    [][ExtrudingMove =>
          /\ OpenPolyline' = Append(OpenPolyline, <<current_x', current_y', current_z'>>)
          /\ AfterTravel =>
                /\ Len(OpenPolyline') >= 2
                /\ OpenPolyline'[1] = <<current_x, current_y, current_z>>]_vars

(***************************************************************************)
(* Normalisations in get_corner_normals                                    *)
(***************************************************************************)
\* the magnitude that the normal of each point of the line is divided by
Divisors(line) ==
    [i \in 1..Len(line) |->
        IF i = 1 THEN Magnitude(first_rotated(line))
        ELSE IF i = Len(line) THEN Magnitude(end_rotated(line))
        ELSE Magnitude(corner_normal(line, i))]

\* some normal of the line is divided by a magnitude of 0
DividesByZero(line) == \E i \in 1..Len(line) : Divisors(line)[i] = <<0, 0>>

\* at the interior point i the line turns back to the point it came from
ExactReversal(line, i) ==
    /\ line[i - 1][1] = line[i + 1][1] /\ line[i - 1][2] = line[i + 1][2]
    /\ line[i][1] # line[i - 1][1] \/ line[i][2] # line[i - 1][2]

\* C12: get_corner_normals never divides by a magnitude of 0, for any polyline
\* of at least 2 points, with duplicate consecutive points or an exact
\* reversal included, and every exact reversal takes the exact-equality branch.
C12_NeverNormalisesZeroVector ==
    \A k \in 1..Len(fragments) :
        LET line == fragments[k].line
        IN  /\ ~DividesByZero(line)
            /\ \A i \in 2..(Len(line) - 1) :
                   ExactReversal(line, i)
                       => exact_negatives(last_normal(line, i), next_normal(line, i))

====
